---------------------------- MODULE Spec2Model ----------------------------
(***************************************************************************)
(* silencio: the Drive listing cursor (gdrive3.DriveScanner) and the tree  *)
(* reconstruction helpers (treeutils) that turn its flat catalog into a    *)
(* path -> id namespace.                                                   *)
(*                                                                         *)
(* Python dicts keep insertion order and several results depend on it, so  *)
(* a dict is a sequence of entries [k |-> key, v |-> value].  Names and    *)
(* paths are sequences of one-character strings; ids are strings.          *)
(***************************************************************************)
EXTENDS Integers, Sequences, FiniteSets, TLC

VARIABLES
    \* the listing collaborator (Drive files().list)
    pages,            \* the pages it serves, in order
    requests,         \* the pageToken of every listing call the scanner has issued
    failures,         \* how many listing calls have failed so far
    \* DriveScanner
    results, page_token, page_counter, is_queried, complete,
    has_manifest, directories, files, trees,
    \* the caller
    pc,               \* where the running call stands
    fresh,            \* history: get() was entered before any listing call
    raised,           \* the exception the last call ended with, or None
    run,              \* which run of the pipeline this is (1 or 2)
    first,            \* what the first run returned
    \* locals of segment_trees / find_root
    adjacencies, unrooted_nodes, segments, node_id,
    walked,           \* history: the ids find_root has left in this call
    \* what the pipeline hands back
    stdout,           \* the warnings printed by paths_from_root
    \* what extract_filesystem returns, which DriveBot.set_filesystem assigns
    \* to the DriveBot's fields of the same names
    filesystem, collisions, root_id

vars == <<pages, requests, failures, fresh, results, page_token, page_counter, is_queried,
          complete, has_manifest, directories, files, trees, pc, raised, run,
          first, adjacencies, unrooted_nodes, segments, node_id, walked,
          stdout, filesystem, collisions, root_id>>

scannerVars == <<results, page_token, page_counter, is_queried, complete>>
serverVars == <<pages, requests, failures>>
cursorVars == <<serverVars, scannerVars, fresh>>
treeVars == <<has_manifest, directories, files, trees, adjacencies,
              unrooted_nodes, segments, node_id, walked, stdout>>
outVars == <<filesystem, collisions, root_id>>

---------------------------------------------------------------------------
(* Bounds of the model. *)

NumFolders == 3
NumExternal == 2
NumFiles == 1
MaxPages == 3
MaxPageLen == 1
MaxFailures == 1

---------------------------------------------------------------------------
(* The universe of ids and names. *)

None == "None"
FOLDER == "application/vnd.google-apps.folder"
PLAIN == "text/plain"

AllFolderIds == <<"A", "B", "C", "D", "E">>
AllExternalIds == <<"R", "S", "T", "U">>
AllFileIds == <<"f", "g", "h">>

\* Python compares the id strings by code point: upper case before lower.
IdAlphabet == AllFolderIds \o AllExternalIds \o AllFileIds

Ord(id) == CHOOSE i \in DOMAIN IdAlphabet : IdAlphabet[i] = id

FolderIds == {AllFolderIds[i] : i \in 1..NumFolders}
ExternalIds == {AllExternalIds[i] : i \in 1..NumExternal}
FileIds == {AllFileIds[i] : i \in 1..NumFiles}

Names == {<<"x">>, <<"y">>}
Sep == <<"/">>

---------------------------------------------------------------------------
(* Ordered dicts. *)

Keys(d) == {d[i].k : i \in DOMAIN d}

HasKey(d, key) == \E i \in DOMAIN d : d[i].k = key

Get(d, key) == d[CHOOSE i \in DOMAIN d : d[i].k = key].v

\* d[key] = value: an existing key keeps its place, a new one goes last.
DictSet(d, key, value) ==
    IF HasKey(d, key)
    THEN [i \in DOMAIN d |-> IF d[i].k = key THEN [k |-> key, v |-> value] ELSE d[i]]
    ELSE Append(d, [k |-> key, v |-> value])

Put(f, key, value) ==
    [x \in DOMAIN f \cup {key} |-> IF x = key THEN value ELSE f[x]]

\* The distinct elements of set S as a sequence sorted by Ord.
RECURSIVE SortedIds(_)
SortedIds(S) ==
    IF S = {} THEN <<>>
    ELSE LET m == CHOOSE x \in S : \A y \in S : Ord(x) <= Ord(y)
         IN <<m>> \o SortedIds(S \ {m})

Range(s) == {s[i] : i \in DOMAIN s}

Perms(n) == {p \in [1..n -> 1..n] : \A i, j \in 1..n : p[i] = p[j] => i = j}

---------------------------------------------------------------------------
(* The listing collaborator: files().list(pageToken=...).execute() *)

AllTokens == <<"t2", "t3", "t4", "t5", "t6">>

\* The token that asks for page k, k > 1.
TokenFor(k) == AllTokens[k - 1]

PageAsked(token) ==
    IF token = None THEN 1
    ELSE 1 + CHOOSE i \in DOMAIN AllTokens : AllTokens[i] = token

\* The response to a request carrying `token`: only the last page comes
\* without nextPageToken.
ListResponse(token) ==
    LET k == PageAsked(token)
    IN [files |-> pages[k],
        nextPageToken |-> IF k < Len(pages) THEN TokenFor(k + 1) ELSE None]

---------------------------------------------------------------------------
(* gdrive3.DriveScanner.__next__, compose_request *)

\* __next__ without its first test: a finished cursor lists again.
CompleteUnchecked == FALSE

\* if self.complete: raise StopIteration
AlreadyComplete == complete

\* compose_request: "pageToken": self.page_token
RequestToken == page_token

\* self.results = files in place of +=: the earlier pages are lost.
AccumulateAssigned(sofar, new_files) == new_files

\* self.results += files
Accumulate(sofar, new_files) == sofar \o new_files

\* CompleteAfter asking for more than the missing token: a last page without
\* records does not end the listing.
CompleteAfterRecords(response, was) ==
    IF response.nextPageToken = None /\ Len(response.files) > 0 THEN TRUE ELSE was

\* if self.page_token is None: self.complete = True
CompleteAfter(response, was) ==
    IF response.nextPageToken = None THEN TRUE ELSE was

\* One call of __next__; the listing call either answers or fails, and a
\* failure leaves everything after execute() undone.
Advance ==
    IF AlreadyComplete
    THEN /\ raised' = "StopIteration"
         /\ UNCHANGED <<serverVars, scannerVars>>
    ELSE /\ is_queried' = TRUE
         /\ requests' = Append(requests, RequestToken)
         /\ pages' = pages
         /\ \E answered \in IF failures < MaxFailures THEN BOOLEAN ELSE {TRUE} :
               IF answered
               THEN LET response == ListResponse(RequestToken)
                    IN /\ page_token' = response.nextPageToken
                       /\ complete' = CompleteAfter(response, complete)
                       /\ results' = Accumulate(results, response.files)
                       /\ page_counter' = page_counter + 1
                       /\ raised' = None
                       /\ failures' = failures
               ELSE /\ raised' = "HttpError"
                    /\ failures' = failures + 1
                    /\ UNCHANGED <<page_token, complete, results, page_counter>>

---------------------------------------------------------------------------
(* gdrive3.DriveScanner.make_manifest *)

\* "".join(parents): the ids of the list run together into one string.
RECURSIVE StrJoin(_)
StrJoin(ids) == IF ids = <<>> THEN "" ELSE Head(ids) \o StrJoin(Tail(ids))

\* dropna(subset=["parents"]): a record with no parents key is dropped.
DropNa(records) == SelectSeq(records, LAMBDA r : "parents" \in DOMAIN r)

JoinParents(records) ==
    [i \in DOMAIN records |-> [records[i] EXCEPT !.parents = StrJoin(@)]]

\* split_on(manifest, mimeType == folder): the rows that are folders, the rest.
MakeManifest(records) ==
    LET manifest == JoinParents(DropNa(records))
    IN [directories |-> SelectSeq(manifest, LAMBDA r : r.mimeType = FOLDER),
        files |-> SelectSeq(manifest, LAMBDA r : r.mimeType # FOLDER)]

---------------------------------------------------------------------------
(* treeutils.make_drive_adjacency_list *)

AdjacencyNode(dirs, directory) ==
    [name |-> directory.name,
     children |-> {dirs[j].id : j \in {j \in DOMAIN dirs : dirs[j].parents = directory.id}},
     parent |-> directory.parents,
     id |-> directory.id]

RECURSIVE AdjacencyLoop(_, _, _)
AdjacencyLoop(dirs, i, adj) ==
    IF i > Len(dirs) THEN adj
    ELSE AdjacencyLoop(dirs, i + 1,
                       DictSet(adj, dirs[i].id, AdjacencyNode(dirs, dirs[i])))

MakeDriveAdjacencyList(dirs) == AdjacencyLoop(dirs, 1, <<>>)

---------------------------------------------------------------------------
(* treeutils.find_root, one iteration of its while loop at a time *)

FindRootLoops(adj, node) == HasKey(adj, node)

FindRootNext(adj, node) == Get(adj, node).parent

---------------------------------------------------------------------------
(* treeutils.paths_from_root *)

\* TopNodes with the root forgotten: every node whose parent is no key of the
\* adjacency map starts the walk, whatever root it hangs under.
TopNodesOfAnyRoot(adj, root) ==
    LET top == SelectSeq(adj, LAMBDA e : ~HasKey(adj, e.v.parent))
    IN [i \in DOMAIN top |-> [id |-> top[i].k, node |-> top[i].v, path |-> <<>>]]

\* valfilter(lambda x: x["parent"] == root_id, adjacencies), as stack entries;
\* node.get('path', '') is '' for them.
TopNodes(adj, root) ==
    LET top == SelectSeq(adj, LAMBDA e : e.v.parent = root)
    IN [i \in DOMAIN top |-> [id |-> top[i].k, node |-> top[i].v, path |-> <<>>]]

\* ChildEntries with the separator forgotten: the children carry path alone.
ChildEntriesNoSep(adj, node, path) ==
    LET kids == SelectSeq(adj, LAMBDA e : e.k \in node.children)
    IN [i \in DOMAIN kids |->
           [id |-> kids[i].k, node |-> kids[i].v, path |-> path]]

\* The children pushed for a node: its adjacency entries, in adjacency order,
\* each carrying path + "/".
ChildEntries(adj, node, path) ==
    LET kids == SelectSeq(adj, LAMBDA e : e.k \in node.children)
    IN [i \in DOMAIN kids |->
           [id |-> kids[i].k, node |-> kids[i].v, path |-> path \o Sep]]

NodePath(entry) == entry.path \o entry.node.name

TreeValues(tree) == {tree[i].v : i \in DOMAIN tree}

RECURSIVE PathsLoop(_, _, _, _, _)
PathsLoop(adj, root, unfinished, tree, out) ==
    IF Len(unfinished) = 0 THEN [tree |-> tree, out |-> out]
    ELSE LET entry == unfinished[Len(unfinished)]      \* unfinished.pop()
             rest == SubSeq(unfinished, 1, Len(unfinished) - 1)
             path == NodePath(entry)
             warn == IF path \in TreeValues(tree)
                     THEN <<[warning |-> "name collision", path |-> path,
                             under |-> root]>>
                     ELSE <<>>
         IN PathsLoop(adj, root,
                      rest \o ChildEntries(adj, entry.node, path),
                      DictSet(tree, entry.id, path),
                      out \o warn)

PathsFromRoot(adj, root) == PathsLoop(adj, root, TopNodes(adj, root), <<>>, <<>>)

---------------------------------------------------------------------------
(* treeutils.segment_trees: what one pass of its loop does once find_root
   has returned root. *)

\* The loop test with an off-by-one: the last unrooted node gets no tree.
SegmentLoopsButLast(unrooted) == Len(unrooted) > 1

\* while len(unrooted_nodes) > 0
SegmentLoops(unrooted) == Len(unrooted) > 0

RemoveRooted(unrooted, tree) ==
    SelectSeq(unrooted, LAMBDA node : node \notin Keys(tree))

---------------------------------------------------------------------------
(* treeutils.get_segment_ids, pick_disjoint_set *)

GetSegmentIds(segs) ==
    [i \in DOMAIN segs |-> [k |-> segs[i].k, v |-> Keys(segs[i].v) \cup {segs[i].k}]]

PickDisjointSet(entry, value_set_mapping) ==
    LET hits == {i \in DOMAIN value_set_mapping : entry \in value_set_mapping[i].v}
    IN IF hits = {} THEN None
       ELSE value_set_mapping[CHOOSE i \in hits : \A j \in hits : i <= j].k

---------------------------------------------------------------------------
(* treeutils.add_files_to_directory_tree *)

RECURSIVE AddRows(_, _, _)
AddRows(tree, contents, parent_path) ==
    IF contents = <<>> THEN tree
    ELSE AddRows(DictSet(tree, Head(contents).id, parent_path \o Head(contents).name),
                 Tail(contents), parent_path)

\* AddGroup with the membership test first: the files directly under the root
\* are skipped, the root being no key of the tree.
AddGroupRootSkipped(tree, contents, parent_id, root) ==
    IF ~HasKey(tree, parent_id) THEN tree
    ELSE AddRows(tree, contents, Get(tree, parent_id) \o Sep)

\* One group of files.groupby("parents").
AddGroup(tree, contents, parent_id, root) ==
    IF parent_id = root THEN AddRows(tree, contents, <<>>)
    ELSE IF ~HasKey(tree, parent_id) THEN tree
    ELSE AddRows(tree, contents, Get(tree, parent_id) \o Sep)

RECURSIVE AddGroups(_, _, _, _)
AddGroups(tree, rows, parent_ids, root) ==
    IF parent_ids = <<>> THEN tree
    ELSE LET parent_id == Head(parent_ids)
             contents == SelectSeq(rows, LAMBDA r : r.parents = parent_id)
         IN AddGroups(AddGroup(tree, contents, parent_id, root),
                      rows, Tail(parent_ids), root)

\* groupby sorts its keys.
AddFilesToDirectoryTree(tree, rows, root) ==
    AddGroups(tree, rows, SortedIds({rows[i].parents : i \in DOMAIN rows}), root)

---------------------------------------------------------------------------
(* treeutils.add_files_to_segmented_trees *)

RECURSIVE AddToSegments(_, _, _, _)
AddToSegments(segs, rows, segment_ids, roots) ==
    IF roots = <<>> THEN segs
    ELSE LET root == Head(roots)
             tree_files == SelectSeq(rows, LAMBDA r :
                               PickDisjointSet(r.parents, segment_ids) = root)
         IN AddToSegments(
                DictSet(segs, root,
                        AddFilesToDirectoryTree(Get(segs, root), tree_files, root)),
                rows, segment_ids, Tail(roots))

\* files.groupby(segment_membership): the groups come in sorted key order and
\* a row whose membership is None is in no group.
AddFilesToSegmentedTrees(segs, rows) ==
    LET segment_ids == GetSegmentIds(segs)
        membership == {PickDisjointSet(rows[i].parents, segment_ids) : i \in DOMAIN rows}
    IN AddToSegments(segs, rows, segment_ids, SortedIds(membership \ {None}))

---------------------------------------------------------------------------
(* treeutils.flip_path_tree *)

\* FlipCollide assigning the pair instead of updating the set: the ids of
\* earlier collisions on the path are lost.
FlipCollideAssigned(coll, path, drive_id, old_id) ==
    Put(coll, path, {drive_id, old_id})

\* One pass of the loop over tree.keys().
FlipCollide(coll, path, drive_id, old_id) ==
    Put(coll, path,
        (IF path \in DOMAIN coll THEN coll[path] ELSE {}) \cup {drive_id, old_id})

FlipStep(acc, entry) ==
    LET drive_id == entry.k
        path == entry.v
    IN [paths |-> Put(acc.paths, path, drive_id),
        collisions |-> IF path \in DOMAIN acc.paths
                       THEN FlipCollide(acc.collisions, path, drive_id, acc.paths[path])
                       ELSE acc.collisions]

RECURSIVE FlipLoop(_, _, _)
FlipLoop(tree, i, acc) ==
    IF i > Len(tree) THEN acc
    ELSE FlipLoop(tree, i + 1, FlipStep(acc, tree[i]))

NoMapping == [p \in {} |-> None]

\* The returned dict is built over sorted(paths.keys()); as a mapping it is
\* paths itself.
FlipPathTree(tree) ==
    LET acc == FlipLoop(tree, 1, [paths |-> NoMapping, collisions |-> NoMapping])
    IN [filesystem |-> acc.paths, collisions |-> acc.collisions]

---------------------------------------------------------------------------
(* The catalogs the runs start from. *)

FolderRecord(id, name, parent) ==
    [id |-> id, name |-> name, mimeType |-> FOLDER, parents |-> <<parent>>]

\* A record listed without parents has no such key.
FileRecord(id, name, parent) ==
    IF parent = None
    THEN [id |-> id, name |-> name, mimeType |-> PLAIN]
    ELSE [id |-> id, name |-> name, mimeType |-> PLAIN, parents |-> <<parent>>]

FolderOrder == SubSeq(AllFolderIds, 1, NumFolders)
FileOrder == SubSeq(AllFileIds, 1, NumFiles)

Catalog(fparent, fname, gparent, gname) ==
    [i \in 1..NumFolders |->
        FolderRecord(FolderOrder[i], fname[FolderOrder[i]], fparent[FolderOrder[i]])]
    \o [i \in 1..NumFiles |->
        FileRecord(FileOrder[i], gname[FileOrder[i]], gparent[FileOrder[i]])]

Catalogs ==
    {Catalog(fparent, fname, gparent, gname) :
        fparent \in [FolderIds -> FolderIds \cup ExternalIds],
        fname \in [FolderIds -> Names],
        gparent \in [FileIds -> FolderIds \cup ExternalIds \cup {None}],
        gname \in [FileIds -> Names]}

Permuted(s, p) == [i \in DOMAIN s |-> s[p[i]]]

NoResult == [filesystem |-> NoMapping, collisions |-> NoMapping, root_id |-> None]

Returned == [filesystem |-> filesystem, collisions |-> collisions, root_id |-> root_id]

---------------------------------------------------------------------------
(* The pipeline: DriveScanner.extract_filesystem(root_id=None) on a scanner
   whose listing is complete, run twice over the same catalog. *)

\* A scanner that fetched `catalog` as a single page and has built nothing.
ScannedState(catalog) ==
    /\ pages = <<catalog>>
    /\ requests = <<None>>
    /\ failures = 0
    /\ fresh = TRUE
    /\ results = catalog
    /\ page_token = None
    /\ page_counter = 1
    /\ is_queried = TRUE
    /\ complete = TRUE

FreshTreeState ==
    /\ has_manifest = FALSE
    /\ directories = <<>>
    /\ files = <<>>
    /\ trees = <<>>
    /\ adjacencies = <<>>
    /\ unrooted_nodes = <<>>
    /\ segments = <<>>
    /\ node_id = None
    /\ walked = {}
    /\ stdout = <<>>

Init ==
    /\ \E catalog \in Catalogs : ScannedState(catalog)
    /\ FreshTreeState
    /\ pc = "idle"
    /\ raised = None
    /\ run = 1
    /\ first = NoResult
    /\ filesystem = NoMapping
    /\ collisions = NoMapping
    /\ root_id = None

\* extract_filesystem up to the call of segment_trees: with no results it
\* returns at once, with trees already built it goes on to flip_path_tree,
\* and otherwise get_file_trees makes the manifest (unless one is there) and
\* the adjacency list.  (self.complete is True here, so get() is not called.)
ExtractBegin ==
    /\ pc \in {"idle", "set_filesystem"}
    /\ complete
    /\ IF Len(results) = 0
       THEN /\ pc' = "done"
            /\ filesystem' = NoMapping
            /\ collisions' = NoMapping
            /\ UNCHANGED <<root_id, treeVars>>
       ELSE IF Len(trees) # 0
       THEN /\ pc' = "flip"
            /\ UNCHANGED <<treeVars, outVars>>
       ELSE LET manifest == IF has_manifest
                            THEN [directories |-> directories, files |-> files]
                            ELSE MakeManifest(results)
                adj == MakeDriveAdjacencyList(manifest.directories)
            IN /\ has_manifest' = TRUE
               /\ directories' = manifest.directories
               /\ files' = manifest.files
               /\ adjacencies' = adj
               /\ unrooted_nodes' = [i \in DOMAIN adj |-> adj[i].k]
               /\ segments' = <<>>
               /\ pc' = "segment_trees"
               /\ UNCHANGED <<trees, node_id, walked, stdout, outVars>>
    /\ UNCHANGED <<cursorVars, raised, run, first>>

\* segment_trees, loop head: choice(unrooted_nodes) starts find_root.
SegmentChoice ==
    /\ pc = "segment_trees"
    /\ SegmentLoops(unrooted_nodes)
    /\ \E i \in DOMAIN unrooted_nodes : node_id' = unrooted_nodes[i]
    /\ walked' = {}
    /\ pc' = "find_root"
    /\ UNCHANGED <<cursorVars, raised, run, first, has_manifest,
                   directories, files, trees, adjacencies, unrooted_nodes,
                   segments, stdout, outVars>>

\* find_root: one pass of `while node_id in adjacencies.keys()`.
FindRootStep ==
    /\ pc = "find_root"
    /\ FindRootLoops(adjacencies, node_id)
    /\ node_id' = FindRootNext(adjacencies, node_id)
    /\ walked' = walked \cup {node_id}
    /\ UNCHANGED <<cursorVars, raised, run, first, has_manifest,
                   directories, files, trees, adjacencies, unrooted_nodes,
                   segments, stdout, pc, outVars>>

\* find_root returns; the rest of the loop body of segment_trees.
SegmentTree ==
    /\ pc = "find_root"
    /\ ~FindRootLoops(adjacencies, node_id)
    /\ LET root == node_id
           built == PathsFromRoot(adjacencies, root)
       IN /\ unrooted_nodes' = RemoveRooted(unrooted_nodes, built.tree)
          /\ segments' = DictSet(segments, root, built.tree)
          /\ stdout' = stdout \o built.out
    /\ pc' = "segment_trees"
    /\ UNCHANGED <<cursorVars, raised, run, first, has_manifest,
                   directories, files, trees, adjacencies, node_id, walked,
                   outVars>>

\* segment_trees returns; get_file_trees attaches the files.
AttachFiles ==
    /\ pc = "segment_trees"
    /\ ~SegmentLoops(unrooted_nodes)
    /\ trees' = AddFilesToSegmentedTrees(segments, files)
    /\ pc' = "flip"
    /\ UNCHANGED <<cursorVars, raised, run, first, has_manifest,
                   directories, files, adjacencies, unrooted_nodes, segments,
                   node_id, walked, stdout, outVars>>

\* root_id = list(self.trees.keys())[0]; flip_path_tree(self.trees[root_id]).
ExtractReturn ==
    /\ pc = "flip"
    /\ IF Len(trees) = 0
       THEN /\ raised' = "IndexError"
            /\ UNCHANGED outVars
       ELSE LET flipped == FlipPathTree(trees[1].v)
            IN /\ root_id' = trees[1].k
               /\ filesystem' = flipped.filesystem
               /\ collisions' = flipped.collisions
               /\ raised' = None
    /\ pc' = "done"
    /\ UNCHANGED <<cursorVars, run, first, treeVars>>

\* The second run: a new scanner receives the same records, the folders in any
\* order and then the files in any order (make_manifest keeps the order within
\* each kind and nothing else of the order of the listing).
RunAgain ==
    /\ pc = "done"
    /\ run = 1
    /\ raised = None
    /\ \E p \in Perms(NumFolders), q \in Perms(NumFiles) :
          /\ results' = Permuted(SubSeq(results, 1, NumFolders), p)
                        \o Permuted(SubSeq(results, NumFolders + 1, Len(results)), q)
          /\ pages' = <<results'>>
    /\ UNCHANGED <<requests, failures, fresh, page_token, page_counter,
                   is_queried, complete>>
    /\ has_manifest' = FALSE
    /\ directories' = <<>>
    /\ files' = <<>>
    /\ trees' = <<>>
    /\ adjacencies' = <<>>
    /\ unrooted_nodes' = <<>>
    /\ segments' = <<>>
    /\ node_id' = None
    /\ walked' = {}
    /\ stdout' = <<>>
    /\ first' = Returned
    /\ run' = 2
    /\ pc' = "idle"
    /\ raised' = None
    /\ filesystem' = NoMapping
    /\ collisions' = NoMapping
    /\ root_id' = None

Next ==
    \/ ExtractBegin
    \/ SegmentChoice
    \/ FindRootStep
    \/ SegmentTree
    \/ AttachFiles
    \/ ExtractReturn
    \/ RunAgain

Spec == Init /\ [][Next]_vars

---------------------------------------------------------------------------
(* What the claims speak of, read off the catalog itself. *)

\* The records of the listing that carry parents, by kind.
FolderRecords == {r \in Range(results) : "parents" \in DOMAIN r /\ r.mimeType = FOLDER}
FileRecords == {r \in Range(results) : "parents" \in DOMAIN r /\ r.mimeType # FOLDER}

ListedFolderIds == {r.id : r \in FolderRecords}

FolderOf(id) == CHOOSE r \in FolderRecords : r.id = id

\* Every record of the model has one parent.
ParentOf(r) == r.parents[1]

\* The id reached from id by n steps up the parent pointers, stopping at the
\* first id that is no listed folder.
RECURSIVE Ancestor(_, _)
Ancestor(id, n) ==
    IF n = 0 \/ id \notin ListedFolderIds THEN id
    ELSE Ancestor(ParentOf(FolderOf(id)), n - 1)

\* The end of id's parent chain; a listed folder only when the chain cycles.
ChainEnd(id) == Ancestor(id, Cardinality(ListedFolderIds))

Acyclic == \A id \in ListedFolderIds : ChainEnd(id) \notin ListedFolderIds

\* The names on the parent chain from root's direct child down to id.
RECURSIVE ChainNames(_, _, _)
ChainNames(id, root, fuel) ==
    IF fuel = 0 \/ id \notin ListedFolderIds THEN <<>>
    ELSE IF ParentOf(FolderOf(id)) = root THEN <<FolderOf(id).name>>
    ELSE ChainNames(ParentOf(FolderOf(id)), root, fuel - 1) \o <<FolderOf(id).name>>

RECURSIVE JoinSlash(_)
JoinSlash(names) ==
    IF names = <<>> THEN <<>>
    ELSE IF Len(names) = 1 THEN names[1]
    ELSE names[1] \o <<"/">> \o JoinSlash(Tail(names))

ExpectedPath(id, root) ==
    JoinSlash(ChainNames(id, root, Cardinality(ListedFolderIds)))

IdsAt(tree, path) == {tree[i].k : i \in {i \in DOMAIN tree : tree[i].v = path}}

SegmentsReturned == pc \in {"flip", "done"}

Finished == pc = "done" /\ raised = None

SelectedTree == Get(trees, root_id)

---------------------------------------------------------------------------
(* C1 .. C8: the tree reconstruction. *)

\* C1: a path computed for two or more distinct ids of the tree handed to
\* flip_path_tree is not a key of the returned path -> id mapping, and no id
\* of collisions[p] is the value of namespace[p].
C1_CollidingPathExcluded ==
    Finished =>
        /\ \A p \in TreeValues(SelectedTree) :
              Cardinality(IdsAt(SelectedTree, p)) >= 2 => p \notin DOMAIN filesystem
        /\ \A p \in DOMAIN collisions :
              p \in DOMAIN filesystem => filesystem[p] \notin collisions[p]

\* C2: the keys of collisions are exactly the paths computed for two or more
\* distinct ids, each mapped to the set of all the ids that have that path; a
\* path of a single id is no key.
C2_CollisionsExact ==
    Finished =>
        /\ DOMAIN collisions =
              {p \in TreeValues(SelectedTree) : Cardinality(IdsAt(SelectedTree, p)) >= 2}
        /\ \A p \in DOMAIN collisions : collisions[p] = IdsAt(SelectedTree, p)

C2_Witness ==
    /\ Finished
    /\ \E p \in DOMAIN collisions : Cardinality(collisions[p]) >= 3
    /\ \E p \in TreeValues(SelectedTree) : p \notin DOMAIN collisions

\* C3: for a folder set without a parent cycle the forest segment_trees
\* returns partitions the folder ids: every folder id is a key of exactly one
\* tree, no tree holds an id that is no folder, and the trees together hold
\* the keys of the adjacency map.
C3_ForestPartitions ==
    (SegmentsReturned /\ Acyclic) =>
        /\ \A id \in ListedFolderIds :
              Cardinality({i \in DOMAIN segments : id \in Keys(segments[i].v)}) = 1
        /\ \A i \in DOMAIN segments : Keys(segments[i].v) \subseteq ListedFolderIds
        /\ UNION {Keys(segments[i].v) : i \in DOMAIN segments} = Keys(adjacencies)
        /\ Keys(adjacencies) = ListedFolderIds

C3_Witness ==
    /\ SegmentsReturned
    /\ Acyclic
    /\ Len(segments) >= 2
    /\ \E i \in DOMAIN segments : Len(segments[i].v) >= 2

\* The path of every entry of a tree built from root.
TreePathsJoined(tree, root) ==
    \A i \in DOMAIN tree :
        LET id == tree[i].k
            path == tree[i].v
        IN /\ path = ExpectedPath(id, root)
           /\ Len(path) > 0
           /\ path[1] # "/"
           /\ path[Len(path)] # "/"
           /\ ParentOf(FolderOf(id)) = root => path = FolderOf(id).name

\* C4: for an acyclic adjacency map and every root, the path paths_from_root
\* gives a folder is the names on the parent chain from the root's direct
\* child down to the folder joined with "/", with no separator at either end;
\* a direct child of the root gets its own name.  Stated of the trees
\* segment_trees builds and of paths_from_root called with any id as root.
C4_PathIsJoinedChain ==
    Acyclic =>
        /\ \A i \in DOMAIN segments : TreePathsJoined(segments[i].v, segments[i].k)
        /\ (pc = "segment_trees" /\ Len(segments) = 0) =>
              \A root \in FolderIds \cup ExternalIds :
                  TreePathsJoined(PathsFromRoot(adjacencies, root).tree, root)

C4_Witness ==
    /\ Acyclic
    /\ \E i \in DOMAIN segments :
          \E j \in DOMAIN segments[i].v : Len(segments[i].v[j].v) = 5

\* C5: two runs of the pipeline over the same catalog, the records in the
\* same or in a permuted order, return the same namespace, collisions and
\* root id.
C5_RunsAgree ==
    (run = 2 /\ Finished) => Returned = first

\* C6: find_root on a parent chain that revisits a folder ends with a
\* CycleDetected failure; it does not go on walking the parent pointers.
C6_FindRootDetectsCycle ==
    (pc = "find_root" /\ node_id \in walked) => raised = "CycleDetected"

\* The tree of segments and of trees that holds id, as positions.
SegmentsHolding(id) ==
    {i \in DOMAIN segments : id \in Keys(segments[i].v) \cup {segments[i].k}}

\* C7: a file whose parent is a folder of a tree, or that tree's root, gets
\* in that tree and in no other the entry file id -> parent's path + "/" +
\* file name (the file name alone under the root); the folder entries of the
\* trees stay as they were.
C7_FilesAttached ==
    SegmentsReturned =>
        /\ [i \in DOMAIN trees |-> trees[i].k] = [i \in DOMAIN segments |-> segments[i].k]
        /\ \A i \in DOMAIN segments :
              SelectSeq(trees[i].v, LAMBDA e : e.k \in Keys(segments[i].v)) = segments[i].v
        /\ \A r \in FileRecords : \A i \in SegmentsHolding(ParentOf(r)) :
              /\ HasKey(trees[i].v, r.id)
              /\ Get(trees[i].v, r.id) =
                    IF ParentOf(r) = segments[i].k THEN r.name
                    ELSE Get(segments[i].v, ParentOf(r)) \o <<"/">> \o r.name
              /\ \A j \in DOMAIN trees : j # i => ~HasKey(trees[j].v, r.id)

C7_Witness ==
    /\ SegmentsReturned
    /\ Len(segments) >= 2
    /\ \E r \in FileRecords : \E i \in SegmentsHolding(ParentOf(r)) :
          /\ i = 2
          /\ ParentOf(r) # segments[i].k
          /\ HasKey(trees[i].v, r.id)
          /\ Len(Get(trees[i].v, r.id)) = 5

\* C8: a file whose parent is in no tree and is no tree's root is in no tree
\* and not in the namespace, and is reported as an UnassignedFile.
C8_UnassignedReported ==
    Finished =>
        \A r \in FileRecords :
            SegmentsHolding(ParentOf(r)) = {} =>
                /\ \A i \in DOMAIN trees : ~HasKey(trees[i].v, r.id)
                /\ \A p \in DOMAIN filesystem : filesystem[p] # r.id
                /\ \E i \in DOMAIN stdout :
                      /\ stdout[i].warning = "UnassignedFile"
                      /\ "id" \in DOMAIN stdout[i]
                      /\ stdout[i].id = r.id

---------------------------------------------------------------------------
(* C12, C14, C15: the forest and the manifest. *)

\* One scan and one extract_filesystem, from the scanner as constructed: get()
\* fetches the catalog as a single page, then the pipeline runs once.
InitUnlisted ==
    /\ pages = <<>>
    /\ requests = <<>>
    /\ failures = 0
    /\ fresh = TRUE
    /\ results = <<>>
    /\ page_token = None
    /\ page_counter = 0
    /\ is_queried = FALSE
    /\ complete = FALSE
    /\ FreshTreeState
    /\ pc = "unlisted"
    /\ raised = None
    /\ run = 1
    /\ first = NoResult
    /\ filesystem = NoMapping
    /\ collisions = NoMapping
    /\ root_id = None

ListCatalog ==
    /\ pc = "unlisted"
    /\ \E catalog \in Catalogs :
          /\ pages' = <<catalog>>
          /\ results' = catalog
    /\ requests' = <<None>>
    /\ page_token' = None
    /\ page_counter' = 1
    /\ is_queried' = TRUE
    /\ complete' = TRUE
    /\ pc' = "idle"
    /\ UNCHANGED <<failures, fresh, raised, run, first, treeVars, outVars>>

NextOnce ==
    \/ ListCatalog
    \/ ExtractBegin
    \/ SegmentChoice
    \/ FindRootStep
    \/ SegmentTree
    \/ AttachFiles
    \/ ExtractReturn

\* segment_trees as a running call: once entered, its next step (the choice,
\* a pass of find_root's loop, the tree of the root found, the return) is
\* taken whenever there is one.
SegmentTreesStep == SegmentChoice \/ FindRootStep \/ SegmentTree \/ AttachFiles

SpecRunning == InitUnlisted /\ [][NextOnce]_vars /\ WF_vars(SegmentTreesStep)

\* The folders whose parent chain never leaves the listing, and the others.
CycleFolders == {id \in ListedFolderIds : ChainEnd(id) \in ListedFolderIds}
TreeFolders == ListedFolderIds \ CycleFolders

\* C12: on an adjacency map with a parent cycle and acyclic components
\* segment_trees terminates, whichever folder is picked first: the folders of
\* the cycle are reported as CycleDetected and are in no tree, and every
\* folder of an acyclic component is in the tree of its chain end.  Stated of
\* the cycles of two or more folders: on a folder that is its own parent
\* find_root's loop repeats one and the same state.
C12_CycleSetAside ==
    [](( /\ pc = "segment_trees"
         /\ CycleFolders # {}
         /\ TreeFolders # {}
         /\ \A id \in ListedFolderIds : ParentOf(FolderOf(id)) # id )
       => <>( /\ SegmentsReturned
              /\ \A id \in CycleFolders : SegmentsHolding(id) = {}
              /\ \A id \in TreeFolders :
                    \E i \in DOMAIN segments :
                        segments[i].k = ChainEnd(id) /\ HasKey(segments[i].v, id)
              /\ \E i \in DOMAIN stdout :
                    /\ stdout[i].warning = "CycleDetected"
                    /\ "ids" \in DOMAIN stdout[i]
                    /\ stdout[i].ids = CycleFolders ))

\* The ids at which the parent chains of the listed folders end.
ChainEnds == {ChainEnd(id) : id \in ListedFolderIds}

\* C14: for a folder set without a parent cycle the forest segment_trees
\* returns has exactly one tree per distinct id at which a parent chain ends
\* outside the listing, keyed by that id, and two folders are in the same
\* tree exactly when their chains end at the same id.
C14_OneTreePerRoot ==
    (SegmentsReturned /\ Acyclic) =>
        /\ Keys(segments) = ChainEnds
        /\ Cardinality(ChainEnds) = Len(segments)
        /\ \A i \in DOMAIN segments :
              Keys(segments[i].v) = {id \in ListedFolderIds : ChainEnd(id) = segments[i].k}
        /\ \A a, b \in ListedFolderIds :
              (\E i \in DOMAIN segments : {a, b} \subseteq Keys(segments[i].v))
                  <=> ChainEnd(a) = ChainEnd(b)

C14_Witness ==
    /\ SegmentsReturned
    /\ Acyclic
    /\ Cardinality(ChainEnds) = 2
    /\ Len(segments) = 2
    /\ \E a, b \in ListedFolderIds :
          /\ a # b
          /\ ParentOf(FolderOf(a)) = b
          /\ \E i \in DOMAIN segments : {a, b} \subseteq Keys(segments[i].v)

\* The ids of the rows of a frame, and the listed records without parents.
RowIds(frame) == {frame[i].id : i \in DOMAIN frame}

Orphans == {i \in DOMAIN results : "parents" \notin DOMAIN results[i]}

\* C15: make_manifest puts every record that has parents in exactly one of
\* its two outputs, directories when its mimeType is the folder type and files
\* otherwise; a record without parents is in neither, and the number of the
\* records left out is reported to the caller.
C15_ManifestSplitsAndCounts ==
    has_manifest =>
        /\ \A r \in FolderRecords :
              r.id \in RowIds(directories) /\ r.id \notin RowIds(files)
        /\ \A r \in FileRecords :
              r.id \in RowIds(files) /\ r.id \notin RowIds(directories)
        /\ \A i \in Orphans :
              results[i].id \notin RowIds(directories) \cup RowIds(files)
        /\ Orphans # {} =>
              \E i \in DOMAIN stdout :
                  /\ "excluded" \in DOMAIN stdout[i]
                  /\ stdout[i].excluded = Cardinality(Orphans)

---------------------------------------------------------------------------
(* The cursor: a new DriveBot with its DriveScanner, and a caller that calls
   next() and get() on the scanner and scan() and set_filesystem() on the
   DriveBot.  set_filesystem is the repository's one caller of
   extract_filesystem. *)

PoolRecords == {FolderRecord("A", <<"x">>, "R"), FileRecord("f", <<"y">>, "A")}

RECURSIVE SeqsUpTo(_, _)
SeqsUpTo(S, n) ==
    IF n = 0 THEN {<<>>}
    ELSE LET shorter == SeqsUpTo(S, n - 1)
         IN shorter \cup {Append(q, x) : q \in shorter, x \in S}

Listings == SeqsUpTo(SeqsUpTo(PoolRecords, MaxPageLen), MaxPages) \ {<<>>}

InitCursor ==
    /\ pages \in Listings
    /\ requests = <<>>
    /\ failures = 0
    /\ fresh = FALSE
    /\ results = <<>>
    /\ page_token = None
    /\ page_counter = 0
    /\ is_queried = FALSE
    /\ complete = FALSE
    /\ FreshTreeState
    /\ pc = "idle"
    /\ raised = None
    /\ run = 1
    /\ first = NoResult
    /\ filesystem = NoMapping
    /\ collisions = NoMapping
    /\ root_id = ""

\* Where the caller is between two calls, and where a call is inside get's loop.
CallerPcs == {"idle", "got", "done"}
GetPcs == {"get", "scan", "set_filesystem"}

\* next(scanner), called by the caller itself.
CallNext ==
    /\ pc \in CallerPcs
    /\ Advance
    /\ pc' = "idle"
    /\ UNCHANGED <<fresh, run, first, treeVars, outVars>>

\* scanner.get() is entered.
CallGet ==
    /\ pc \in CallerPcs
    /\ pc' = "get"
    /\ fresh' = ~is_queried
    /\ raised' = None
    /\ UNCHANGED <<serverVars, scannerVars, run, first, treeVars, outVars>>

\* AfterListing with the failure caught inside the loop: get goes on and
\* lists again.
AfterListingRetried(err, at) == at

\* Where control is after next(self) inside get's loop: in the loop, or, the
\* exception passing through get, scan and set_filesystem, back at the caller.
AfterListing(err, at) == IF err = None THEN at ELSE "idle"

\* get: `while self.complete is False: next(self)`, whether get was called
\* by the caller, by scan or by scan within set_filesystem.
GetAdvance ==
    /\ pc \in GetPcs
    /\ complete = FALSE
    /\ Advance
    /\ pc' = AfterListing(raised', pc)
    /\ UNCHANGED <<fresh, run, first, treeVars, outVars>>

\* get: the loop is over, `return self.results`.
GetReturn ==
    /\ pc = "get"
    /\ complete # FALSE
    /\ pc' = "got"
    /\ UNCHANGED <<cursorVars, raised, run, first, treeVars, outVars>>

\* DriveBot.scan(force): nothing to do on a complete scanner unless forced;
\* force puts a new DriveScanner in place; then scanner.get().
CallScan ==
    /\ pc \in CallerPcs
    /\ raised' = None
    /\ \E force \in BOOLEAN :
          IF complete /\ ~force
          THEN /\ pc' = "idle"
               /\ UNCHANGED <<cursorVars, treeVars>>
          ELSE /\ pc' = "scan"
               /\ IF force
                  THEN /\ requests' = <<>>
                       /\ results' = <<>>
                       /\ page_token' = None
                       /\ page_counter' = 0
                       /\ is_queried' = FALSE
                       /\ complete' = FALSE
                       /\ fresh' = TRUE
                       /\ has_manifest' = FALSE
                       /\ directories' = <<>>
                       /\ files' = <<>>
                       /\ trees' = <<>>
                       /\ UNCHANGED <<pages, failures, adjacencies,
                                      unrooted_nodes, segments, node_id,
                                      walked, stdout>>
                  ELSE UNCHANGED <<cursorVars, treeVars>>
    /\ UNCHANGED <<run, first, outVars>>

\* scan: get has returned, and so does scan.
ScanReturn ==
    /\ pc = "scan"
    /\ complete # FALSE
    /\ pc' = "idle"
    /\ UNCHANGED <<cursorVars, raised, run, first, treeVars, outVars>>

\* DriveBot.set_filesystem() on a scanner that is not complete: self.scan()
\* first.  What follows the scan, and set_filesystem on a complete scanner,
\* is ExtractBegin .. ExtractReturn.
CallSetFilesystem ==
    /\ pc \in CallerPcs
    /\ complete = FALSE
    /\ pc' = "set_filesystem"
    /\ raised' = None
    /\ UNCHANGED <<cursorVars, run, first, treeVars, outVars>>

NextCursor ==
    \/ CallNext
    \/ CallGet
    \/ GetAdvance
    \/ GetReturn
    \/ CallScan
    \/ ScanReturn
    \/ CallSetFilesystem
    \/ ExtractBegin
    \/ SegmentChoice
    \/ FindRootStep
    \/ SegmentTree
    \/ AttachFiles
    \/ ExtractReturn

SpecCursor == InitCursor /\ [][NextCursor]_vars

---------------------------------------------------------------------------
(* C9, C10: the listing cursor. *)

\* C9: __next__ on a cursor whose completion state is true fails with the
\* end-of-listing error (StopIteration), issues no listing call and leaves
\* results, page token, page counter and completion state as they were.
C9_NextAfterComplete ==
    [][(CallNext /\ complete) =>
          /\ raised' = "StopIteration"
          /\ requests' = requests
          /\ results' = results
          /\ page_token' = page_token
          /\ page_counter' = page_counter
          /\ complete' = complete]_vars

C9_Witness ==
    /\ complete
    /\ raised = "StopIteration"
    /\ Len(requests) = Len(pages)
    /\ Len(pages) >= 2

RECURSIVE Flatten(_)
Flatten(ps) == IF ps = <<>> THEN <<>> ELSE Head(ps) \o Flatten(Tail(ps))

\* C10: get on a fresh cursor, no listing call failing, issues one listing
\* call per page, the k-th carrying the token that came with page k-1 (none
\* for the first), and returns with the completion state true and results the
\* records of the pages in page order.
C10_GetDrainsAll ==
    (pc = "got" /\ fresh /\ failures = 0) =>
        /\ complete
        /\ Len(requests) = Len(pages)
        /\ \A k \in DOMAIN requests :
              requests[k] = IF k = 1 THEN None ELSE TokenFor(k)
        /\ results = Flatten(pages)
        /\ page_counter = Len(pages)

C10_Witness ==
    /\ pc = "got"
    /\ fresh
    /\ failures = 0
    /\ Len(pages) = 3
    /\ Len(results) >= 2

---------------------------------------------------------------------------
(* C11, C13: failures of the listing call, and the completed cursor. *)

\* C11: a listing call that fails during a scan (get called by the caller,
\* by DriveBot.scan or by scan within set_filesystem) ends the scan at that
\* call: the failure is with the caller, who has control again, so that no
\* further listing call is issued for this call; and the DriveBot's
\* filesystem, collisions and root_id are untouched by the failing call and
\* by every step of a scan that has not completed.
C11_FailureStopsScan ==
    [][ /\ (failures' # failures) =>
              /\ raised' = "HttpError"
              /\ pc' = "idle"
              /\ Len(requests') = Len(requests) + 1
              /\ outVars' = outVars
        /\ (pc' \in GetPcs \/ (pc \in GetPcs /\ ~complete)) =>
              outVars' = outVars ]_vars

C11_Witness ==
    /\ raised = "HttpError"
    /\ pc = "idle"
    /\ failures = 1
    /\ ~complete
    /\ Len(results) >= 1
    /\ Len(requests) = Len(results) + 1
    /\ root_id = "R"
    /\ DOMAIN filesystem # {}

\* C13: the completion state is false on a new scanner and becomes true only
\* in a call of __next__ that receives a page without nextPageToken, which
\* always sets it; once true, no call of __next__, get or extract_filesystem
\* on that scanner makes it false, issues a listing call or changes results,
\* page token or page counter.  (scan(force=True) puts another scanner in
\* place: is_queried falls back to false.)
C13_CompleteIsFinal ==
    [][ /\ (complete /\ is_queried') =>
              /\ complete'
              /\ requests' = requests
              /\ results' = results
              /\ page_token' = page_token
              /\ page_counter' = page_counter
        /\ ~is_queried' => ~complete'
        /\ (~complete /\ complete') =>
              /\ Len(requests') = Len(requests) + 1
              /\ page_counter' = page_counter + 1
              /\ page_token' = None
        /\ (page_counter' = page_counter + 1 /\ page_token' = None) =>
              complete' ]_vars

C13_Witness ==
    /\ complete
    /\ pc = "done"
    /\ raised = None
    /\ Len(pages) >= 2
    /\ Len(pages[Len(pages)]) = 0
    /\ Len(requests) = Len(pages)
    /\ Len(trees) > 0
    /\ root_id = "R"

====
